---- MODULE Spec2Model ----
(***************************************************************************)
(* dtokit: createDtoFactory / createDtoHandler (src/src/dtokit.ts).        *)
(*                                                                         *)
(* The library is a handful of closures over a discriminator field name.   *)
(* The state of the model is what a caller of the library can observe: the *)
(* JavaScript heap holding the caller's objects, the raw value handed to   *)
(* the library, the factory and dispatcher that were built, the outcome of *)
(* each call, and the log of handler invocations.                          *)
(***************************************************************************)
EXTENDS Integers, Sequences, FiniteSets, TLC

VARIABLES
    heap,        \* JavaScript heap: object reference -> object
    raw,         \* the value the caller hands to the library
    factory,     \* the DtoFactory built by createDtoFactory()(field), or NoFactory
    ret,         \* outcome of each factory operation called on raw
    dispatcher,  \* the closure returned by createDtoHandler()(field, handlers)
    dispatched,  \* outcome of the dispatcher call on raw
    calls,       \* functions invoked by the dispatcher call: <<[fn, arg, out]>>
    types        \* the type arguments <Schemas, Field> and the types derived from them

vars == <<heap, raw, factory, ret, dispatcher, dispatched, calls, types>>

----------------------------------------------------------------------------
(* Bounds of the model *)

\* own properties the caller defines on its objects (o1 and o2 together)
MaxProps == 1

----------------------------------------------------------------------------
(* JavaScript values *)

Null      == [t |-> "null"]
Undefined == [t |-> "undefined"]
Str(s)    == [t |-> "string", s |-> s]
Num(n)    == [t |-> "number", n |-> n]
Bool(b)   == [t |-> "boolean", b |-> b]
Sym(d)    == [t |-> "symbol", d |-> d]
Ref(r)    == [t |-> "ref", r |-> r]

\* the strings that occur as property values and as discriminator arguments:
\* empty, whitespace only, the literals of Schemas, a literal of no schema, and
\* the name of a member every object inherits
Strings == {"", " ", "a", "b", "zz", "toString"}

\* property names the caller's objects may carry
Keys == {"id", "type"}

\* field names a factory or dispatcher is built with
FieldNames == {"id", "type"}

\* outcome of evaluating an expression or a call
Return(v) == [kind |-> "return", value |-> v]
Throw(e)  == [kind |-> "throw", error |-> e]
NotCalled == [kind |-> "none"]

Returned(o) == o.kind = "return"
Threw(o)    == o.kind = "throw"

\* a property is a data property holding a value, or an accessor whose getter throws
Data(v)        == [kind |-> "data", value |-> v]
ThrowingGetter == [kind |-> "accessor"]

NoProps == [k \in {} |-> Undefined]

----------------------------------------------------------------------------
(* Shape Selector: the type-level derivation, as data.                     *)
(* A field type is the set of string literals it admits, whether it admits *)
(* every string (the general string type), and whether it has a            *)
(* constituent that is no string at all (number, boolean, undefined, ...). *)

Lit(s)     == [lits |-> {s}, str |-> FALSE, other |-> FALSE]
StringType == [lits |-> {},  str |-> TRUE,  other |-> FALSE]
OtherType  == [lits |-> {},  str |-> FALSE, other |-> TRUE]
NeverType  == [lits |-> {},  str |-> FALSE, other |-> FALSE]
Never      == [k |-> "never"]
Shape(fs)  == [k |-> "shape", fields |-> fs]

\* T extends string, T in a non-distributive position
ExtendsString(T) == ~T.other
\* string extends T
StringExtends(T) == T.str

\* the schema set of the test suite, its literals shortened
Schemas ==
    [ MessageA        |-> Shape([id |-> Lit("a"), payload |-> StringType]),
      MessageB        |-> Shape([id |-> Lit("b"), type |-> Lit("a"), data |-> OtherType]),
      NoDiscriminator |-> Shape([name |-> StringType, value |-> OtherType]),
      GenericString   |-> Shape([id |-> StringType, content |-> StringType]) ]

\* the order in which the names of a Schema Set are visited: declaration order
SchemaOrder ==
    <<"MessageA", "MessageB", "MessageC", "NoDiscriminator", "GenericString">>

Position(K) == CHOOSE i \in 1..Len(SchemaOrder) : SchemaOrder[i] = K

\* HasLiteralField without the rejection of the general string type
HasLiteralField_AcceptsString(T, Field) ==
    IF Field \in DOMAIN T.fields
    THEN IF ExtendsString(T.fields[Field])
         THEN T
         ELSE Never
    ELSE Never

HasLiteralField(T, Field) ==
    IF Field \in DOMAIN T.fields
    THEN IF ExtendsString(T.fields[Field])
         THEN IF StringExtends(T.fields[Field])
              THEN Never
              ELSE T
         ELSE Never
    ELSE Never

\* ExtractFieldValue keeping one literal of a union of literals
ExtractFieldValue_FirstLiteral(T, Field) ==
    IF Field \in DOMAIN T.fields
    THEN IF ExtendsString(T.fields[Field])
         THEN IF T.fields[Field].lits = {}
              THEN T.fields[Field]
              ELSE Lit(CHOOSE v \in T.fields[Field].lits : TRUE)
         ELSE NeverType
    ELSE NeverType

ExtractFieldValue(T, Field) ==
    IF Field \in DOMAIN T.fields
    THEN IF ExtendsString(T.fields[Field])
         THEN T.fields[Field]
         ELSE NeverType
    ELSE NeverType

DiscriminatedKey(S, Field) ==
    {K \in DOMAIN S : HasLiteralField(S[K], Field) # Never}

\* key remapping in which a name visited later replaces what an earlier name
\* filed under the same literal
DiscriminatorMap_LastWins(S, Field) ==
    LET keys == UNION {ExtractFieldValue(S[K], Field).lits : K \in DiscriminatedKey(S, Field)}
    IN  [v \in keys |->
            LET Ks == {J \in DiscriminatedKey(S, Field) :
                          v \in ExtractFieldValue(S[J], Field).lits}
            IN  {S[CHOOSE K \in Ks : \A J \in Ks : Position(J) <= Position(K)]}]

\* key remapping: each eligible shape is filed under every literal its field
\* admits; shapes filed under the same literal form a union
DiscriminatorMap(S, Field) ==
    LET keys == UNION {ExtractFieldValue(S[K], Field).lits : K \in DiscriminatedKey(S, Field)}
    IN  [v \in keys |->
            {S[K] : K \in {J \in DiscriminatedKey(S, Field) :
                               v \in ExtractFieldValue(S[J], Field).lits}}]

DiscriminatorId(S, Field) == DOMAIN DiscriminatorMap(S, Field)

\* no type derivation is asked for: the program only runs
NoTypes == [asked |-> FALSE]

----------------------------------------------------------------------------
(* The heap *)

ObjectPrototype == "Object.prototype"

\* an object: its class, its prototype (Null or a Ref), its own properties, and
\* for a function what a call of it runs
Obj(class, proto, own, call) ==
    [class |-> class, proto |-> proto, own |-> own, call |-> call]

\* (a function inherits from Object.prototype through Function.prototype, whose
\* own members are not among the names used here)
PlainObject(own) == Obj("Object", Ref(ObjectPrototype), own, "none")
Function(call)   == Obj("Function", Ref(ObjectPrototype), NoProps, call)

\* the caller's handler functions, one per discriminator value
HandlerFn(v) == "fn_" \o v
HandlerFns   == {HandlerFn(v) : v \in UNION {DiscriminatorId(Schemas, f) : f \in FieldNames}}

\* what every program starts with: Object.prototype and the two of its members
\* a string-keyed lookup can reach
Builtins ==
    [r \in {ObjectPrototype, "toString", "Object"} |->
        CASE r = ObjectPrototype ->
                 Obj("Object", Null,
                     [k \in {"toString", "constructor"} |->
                         IF k = "toString" THEN Data(Ref("toString")) ELSE Data(Ref("Object"))],
                     "none")
          [] r = "toString" -> Function("Object.prototype.toString")
          [] r = "Object"   -> Function("Object")]

\* values a property of a caller object may hold
PropValues ==
    {Str(s) : s \in Strings}
        \cup {Num(123), Null, Undefined, Bool(TRUE), Ref("o1"), Ref("o2")}

Props == {Data(v) : v \in PropValues} \cup {ThrowingGetter}

\* the own properties of an object that carries at most n of them
OwnProps(n) ==
    UNION {[K -> Props] : K \in {S \in SUBSET Keys : Cardinality(S) <= n}}

PropCount(own) == Cardinality(DOMAIN own)

\* the caller's objects: o1, an object or an array, whose prototype is
\* Object.prototype, null or o2; and o2, a plain object; MaxProps own
\* properties between them
CallerObjects ==
    UNION {
        {[o1 |-> Obj(c, p, own1, "none"), o2 |-> PlainObject(own2)] :
            c \in {"Object", "Array"},
            p \in {Ref(ObjectPrototype), Null, Ref("o2")},
            own2 \in OwnProps(MaxProps - PropCount(own1))} :
        own1 \in OwnProps(MaxProps)}

HeapOf(objs) ==
    [r \in DOMAIN Builtins \cup HandlerFns \cup {"o1", "o2"} |->
        CASE r \in DOMAIN Builtins -> Builtins[r]
          [] r \in HandlerFns      -> Function("handler")
          [] OTHER                 -> objs[r]]

EmptyObjects == [o1 |-> PlainObject(NoProps), o2 |-> PlainObject(NoProps)]

\* the raw values: null, undefined, one primitive of each type, a function, o1
RawValues ==
    {Null, Undefined, Str("a"), Num(123), Bool(TRUE), Sym("test"),
     Ref(HandlerFn("a")), Ref("o1")}

----------------------------------------------------------------------------
(* JavaScript semantics the library's expressions rest on *)

\* typeof v
Typeof(h, v) ==
    CASE v.t = "null" -> "object"
      [] v.t = "ref"  -> IF h[v.r].class = "Function" THEN "function" ELSE "object"
      [] OTHER        -> v.t

\* o[key] for an object o: the own property, else the prototype's, else undefined
RECURSIVE GetFrom(_, _, _)
GetFrom(h, r, key) ==
    IF key \in DOMAIN h[r].own
    THEN IF h[r].own[key].kind = "accessor"
         THEN Throw("Error")
         ELSE Return(h[r].own[key].value)
    ELSE IF h[r].proto = Null
         THEN Return(Undefined)
         ELSE GetFrom(h, h[r].proto.r, key)

\* v[key] for any value v: a TypeError on null and undefined; a primitive is
\* read through its wrapper, which inherits from Object.prototype; a string's
\* wrapper has the string's characters under their indices (its other own
\* members, such as length, are not among the names used here)
Get(h, v, key) ==
    CASE v.t \in {"null", "undefined"} -> Throw("TypeError")
      [] v.t = "ref"                   -> GetFrom(h, v.r, key)
      [] v.t = "string" /\ key = "0" /\ Len(v.s) > 0
                                       -> Return(Str(SubSeq(v.s, 1, 1)))
      [] OTHER                         -> GetFrom(h, ObjectPrototype, key)

\* a === b: primitives by type and value, objects by reference
StrictEquals(a, b) == a = b

\* the property key a value used as an index is converted to: a string is the
\* key itself, a symbol names no string-keyed member, any other value is
\* converted to a string (123 is the one number of the model, an array is
\* empty, an object is a plain one)
ToPropertyKey(h, v) ==
    CASE v.t = "string"    -> v.s
      [] v.t = "undefined" -> "undefined"
      [] v.t = "null"      -> "null"
      [] v.t = "number"    -> "123"
      [] v.t = "boolean"   -> IF v.b THEN "true" ELSE "false"
      [] v.t = "symbol"    -> "Symbol(" \o v.d \o ")"
      [] v.t = "ref"       -> IF h[v.r].class = "Array" THEN ""
                              ELSE IF h[v.r].class = "Function" THEN "function"
                              ELSE "[object Object]"

----------------------------------------------------------------------------
(* Factory Runtime: createDtoFactory<Schemas>()(discriminatorField) *)

NoFactory == [made |-> FALSE]

\* the builder storing a fixed name as the field property
createDtoFactory_FieldIsId(discriminatorField) ==
    [made |-> TRUE, discriminatorField |-> discriminatorField, field |-> "id",
     isValid |-> "isValid"]

\* the object literal returned by the builder: `field` is a property of it and
\* so is the member isValid, which holds the library's function isValid until
\* the caller assigns another one; the methods close over the parameter
\* discriminatorField
createDtoFactory(discriminatorField) ==
    [made |-> TRUE, discriminatorField |-> discriminatorField, field |-> discriminatorField,
     isValid |-> "isValid"]

\* isValid without the test value.length > 0
isValid_NoLengthCheck(h, discriminatorField, r) ==
    IF r = Null \/ r = Undefined
    THEN Return(Bool(FALSE))
    ELSE IF Typeof(h, r) # "object"
         THEN Return(Bool(FALSE))
         ELSE LET value == Get(h, r, discriminatorField)
              IN  IF Threw(value)
                  THEN value
                  ELSE Return(Bool(Typeof(h, value.value) = "string"))

\* isValid trimming the value before it tests the length
isValid_Trimmed(h, discriminatorField, r) ==
    IF r = Null \/ r = Undefined
    THEN Return(Bool(FALSE))
    ELSE IF Typeof(h, r) # "object"
         THEN Return(Bool(FALSE))
         ELSE LET value == Get(h, r, discriminatorField)
              IN  IF Threw(value)
                  THEN value
                  ELSE Return(Bool(Typeof(h, value.value) = "string"
                                   /\ value.value.s \notin {"", " "}))

\* isValid converting the value to a string instead of testing its type
isValid_Coerces(h, discriminatorField, r) ==
    IF r = Null \/ r = Undefined
    THEN Return(Bool(FALSE))
    ELSE IF Typeof(h, r) # "object"
         THEN Return(Bool(FALSE))
         ELSE LET value == Get(h, r, discriminatorField)
              IN  IF Threw(value)
                  THEN value
                  ELSE Return(Bool(value.value.t \notin {"null", "undefined"}
                                   /\ Len(ToPropertyKey(h, value.value)) > 0))

\* isValid without the test typeof raw !== "object"
isValid_NoTypeofCheck(h, discriminatorField, r) ==
    IF r = Null \/ r = Undefined
    THEN Return(Bool(FALSE))
    ELSE LET value == Get(h, r, discriminatorField)
         IN  IF Threw(value)
             THEN value
             ELSE Return(Bool(Typeof(h, value.value) = "string"
                              /\ Len(value.value.s) > 0))

\* isValid turning arrays away before it reads the field
isValid_RejectsArrays(h, discriminatorField, r) ==
    IF r = Null \/ r = Undefined
    THEN Return(Bool(FALSE))
    ELSE IF Typeof(h, r) # "object" \/ h[r.r].class = "Array"
         THEN Return(Bool(FALSE))
         ELSE LET value == Get(h, r, discriminatorField)
              IN  IF Threw(value)
                  THEN value
                  ELSE Return(Bool(Typeof(h, value.value) = "string"
                                   /\ Len(value.value.s) > 0))

\* isValid answering false at once when the field name is empty
isValid_EmptyNameNeverMatches(h, discriminatorField, r) ==
    IF r = Null \/ r = Undefined \/ discriminatorField = ""
    THEN Return(Bool(FALSE))
    ELSE IF Typeof(h, r) # "object"
         THEN Return(Bool(FALSE))
         ELSE LET value == Get(h, r, discriminatorField)
              IN  IF Threw(value)
                  THEN value
                  ELSE Return(Bool(Typeof(h, value.value) = "string"
                                   /\ Len(value.value.s) > 0))

\* isValid copying raw's own properties before it picks the field
isValid_ReadsEveryField(h, discriminatorField, r) ==
    IF r = Null \/ r = Undefined
    THEN Return(Bool(FALSE))
    ELSE IF Typeof(h, r) # "object"
         THEN Return(Bool(FALSE))
         ELSE IF \E k \in DOMAIN h[r.r].own : h[r.r].own[k].kind = "accessor"
              THEN Throw("Error")
              ELSE LET value == Get(h, r, discriminatorField)
                   IN  Return(Bool(Typeof(h, value.value) = "string"
                                   /\ Len(value.value.s) > 0))

\* isValid testing for an own property before it reads the field
isValid_OwnOnly(h, discriminatorField, r) ==
    IF r = Null \/ r = Undefined
    THEN Return(Bool(FALSE))
    ELSE IF Typeof(h, r) # "object"
         THEN Return(Bool(FALSE))
         ELSE IF discriminatorField \notin DOMAIN h[r.r].own
              THEN Return(Bool(FALSE))
              ELSE LET value == Get(h, r, discriminatorField)
                   IN  IF Threw(value)
                       THEN value
                       ELSE Return(Bool(Typeof(h, value.value) = "string"
                                        /\ Len(value.value.s) > 0))

isValid(h, discriminatorField, r) ==
    IF r = Null \/ r = Undefined
    THEN Return(Bool(FALSE))
    ELSE IF Typeof(h, r) # "object"
         THEN Return(Bool(FALSE))
         ELSE LET value == Get(h, r, discriminatorField)
              IN  IF Threw(value)
                  THEN value
                  ELSE Return(Bool(Typeof(h, value.value) = "string"
                                   /\ Len(value.value.s) > 0))

\* parse without the validity test: raw is returned whatever it is
parse_Unchecked(h, this, r) == Return(r)

\* the library's isValid reading the name held by the field property
CallIsValid_ReadsFieldProperty(h, this, r) ==
    CASE this.isValid = "isValid"   -> isValid(h, this.field, r)
      [] this.isValid = "acceptAll" -> Return(Bool(TRUE))
      [] this.isValid = "rejectAll" -> Return(Bool(FALSE))

\* the member isValid of the factory object `this`, called on r: the library's
\* function, or the function the caller put in its place
CallIsValid(h, this, r) ==
    CASE this.isValid = "isValid"   -> isValid(h, this.discriminatorField, r)
      [] this.isValid = "acceptAll" -> Return(Bool(TRUE))
      [] this.isValid = "rejectAll" -> Return(Bool(FALSE))

\* parse returning the discriminator it read instead of raw
parse_ReturnsDiscriminator(h, this, r) ==
    LET valid == isValid(h, this.discriminatorField, r)
    IN  IF Threw(valid)
        THEN valid
        ELSE IF ~valid.value.b
             THEN Return(Null)
             ELSE Get(h, r, this.discriminatorField)

\* parse calling the library's isValid whatever the receiver's member is
parse_IgnoresMember(h, this, r) ==
    IF this = Undefined
    THEN Throw("TypeError")
    ELSE LET valid == isValid(h, this.discriminatorField, r)
         IN  IF Threw(valid)
             THEN valid
             ELSE IF ~valid.value.b
                  THEN Return(Null)
                  ELSE Return(r)

\* this.isValid(raw), `this` being the receiver of the call: the factory the
\* method is called on, or undefined when the function is called detached
parse(h, this, r) ==
    IF this = Undefined
    THEN Throw("TypeError")
    ELSE LET valid == CallIsValid(h, this, r)
         IN  IF Threw(valid)
             THEN valid
             ELSE IF ~valid.value.b
                  THEN Return(Null)
                  ELSE Return(r)

\* is reading the field "id" whatever field the factory was built with
is_HardCodedId(h, discriminatorField, dto, id) ==
    LET value == Get(h, dto, "id")
    IN  IF Threw(value)
        THEN value
        ELSE Return(Bool(StrictEquals(value.value, id)))

\* is answering false for a dto that isValid rejects
is_Revalidates(h, discriminatorField, dto, id) ==
    LET valid == isValid(h, discriminatorField, dto)
        value == Get(h, dto, discriminatorField)
    IN  IF Threw(value)
        THEN value
        ELSE Return(Bool(valid = Return(Bool(TRUE)) /\ StrictEquals(value.value, id)))

is(h, discriminatorField, dto, id) ==
    LET value == Get(h, dto, discriminatorField)
    IN  IF Threw(value)
        THEN value
        ELSE Return(Bool(StrictEquals(value.value, id)))

\* getId answering from the dto's own properties only
getId_OwnOnly(h, discriminatorField, dto) ==
    IF dto.t = "ref" /\ discriminatorField \notin DOMAIN h[dto.r].own
    THEN Return(Undefined)
    ELSE Get(h, dto, discriminatorField)

getId(h, discriminatorField, dto) ==
    Get(h, dto, discriminatorField)

----------------------------------------------------------------------------
(* The caller: builds one factory and calls its operations on raw *)

Ops == {"isValid", "parse", "is", "getId"}

\* the id arguments handed to is
IsArgs == {Str(s) : s \in Strings}

NoCall == [out |-> NotCalled]

Init ==
    /\ \E objs \in CallerObjects : heap = HeapOf(objs)
    /\ raw \in RawValues
    /\ raw # Ref("o1") => heap = HeapOf(EmptyObjects)
    /\ factory = NoFactory
    /\ ret = [op \in Ops |-> NoCall]
    /\ dispatcher = [made |-> FALSE]
    /\ dispatched = NotCalled
    /\ calls = << >>
    /\ types = NoTypes

CreateDtoFactory(f) ==
    /\ ~factory.made
    /\ factory' = createDtoFactory(f)
    /\ UNCHANGED <<heap, raw, ret, dispatcher, dispatched, calls, types>>

IsValid ==
    /\ factory.made
    /\ ret["isValid"] = NoCall
    /\ ret' = [ret EXCEPT !["isValid"] =
                  [out |-> isValid(heap, factory.discriminatorField, raw)]]
    /\ UNCHANGED <<heap, raw, factory, dispatcher, dispatched, calls, types>>

\* parse keeping the last raw value it was given in the factory
Parse_KeepsRaw ==
    /\ factory.made
    /\ ret["parse"] = NoCall
    /\ ret' = [ret EXCEPT !["parse"] = [out |-> parse(heap, factory, raw)]]
    /\ factory' = [made |-> TRUE, discriminatorField |-> factory.discriminatorField,
                   field |-> factory.field, isValid |-> factory.isValid, last |-> raw]
    /\ UNCHANGED <<heap, raw, dispatcher, dispatched, calls, types>>

Parse ==
    /\ factory.made
    /\ ret["parse"] = NoCall
    /\ ret' = [ret EXCEPT !["parse"] = [out |-> parse(heap, factory, raw)]]
    /\ UNCHANGED <<heap, raw, factory, dispatcher, dispatched, calls, types>>

Is(id) ==
    /\ factory.made
    /\ ret["is"] = NoCall
    /\ ret' = [ret EXCEPT !["is"] =
                  [out |-> is(heap, factory.discriminatorField, raw, id), id |-> id]]
    /\ UNCHANGED <<heap, raw, factory, dispatcher, dispatched, calls, types>>

GetId ==
    /\ factory.made
    /\ ret["getId"] = NoCall
    /\ ret' = [ret EXCEPT !["getId"] =
                  [out |-> getId(heap, factory.discriminatorField, raw)]]
    /\ UNCHANGED <<heap, raw, factory, dispatcher, dispatched, calls, types>>

Next ==
    \/ \E f \in FieldNames : CreateDtoFactory(f)
    \/ IsValid
    \/ Parse
    \/ \E id \in IsArgs : Is(id)
    \/ GetId

Spec == Init /\ [][Next]_vars

----------------------------------------------------------------------------
(* The caller at the edges of the input space: field names that are empty or *)
(* an array index, and raw values that are arrays or functions carrying      *)
(* properties under such names                                               *)

\* field names: the empty string, an array index, a schema's discriminator
EdgeFieldNames == {"", "0", "id"}

\* property names of the caller's object
EdgeKeys == {"", "0", "id"}

\* o1: an object, an array (its elements are own properties under their
\* indices) or a function, with at most MaxProps own properties
EdgeObjects ==
    {[o1 |-> Obj(c, Ref(ObjectPrototype), own, IF c = "Function" THEN "handler" ELSE "none"),
      o2 |-> PlainObject(NoProps)] :
        c \in {"Object", "Array", "Function"},
        own \in UNION {[K -> Props] : K \in {S \in SUBSET EdgeKeys : Cardinality(S) <= MaxProps}}}

InitEdge ==
    /\ \E objs \in EdgeObjects : heap = HeapOf(objs)
    /\ raw \in RawValues
    /\ raw # Ref("o1") => heap = HeapOf(EmptyObjects)
    /\ factory = NoFactory
    /\ ret = [op \in Ops |-> NoCall]
    /\ dispatcher = [made |-> FALSE]
    /\ dispatched = NotCalled
    /\ calls = << >>
    /\ types = NoTypes

NextEdge ==
    \/ \E f \in EdgeFieldNames : CreateDtoFactory(f)
    \/ IsValid
    \/ Parse

SpecEdge == InitEdge /\ [][NextEdge]_vars

----------------------------------------------------------------------------
(* The caller with two factories, and the caller with two objects *)

\* the two factories of a program that builds one per field name
FactoryNames == {"idFactory", "typeFactory"}

\* the properties the objects of these callers hold under a name: a non-empty
\* string, the empty string, a number, an accessor that throws
TwinProps == {Data(Str("a")), Data(Str("")), Data(Num(123)), ThrowingGetter}

\* an object with any of the names of Keys as own properties
TwinOwn == UNION {[K -> TwinProps] : K \in SUBSET Keys}

\* o1 and o2, two objects
TwinObjects ==
    {[o1 |-> PlainObject(own1), o2 |-> PlainObject(own2)] :
        own1 \in TwinOwn, own2 \in TwinOwn}

\* one object, handed to both factories
InitPair ==
    /\ \E own \in TwinOwn :
           heap = HeapOf([o1 |-> PlainObject(own), o2 |-> PlainObject(NoProps)])
    /\ raw = Ref("o1")
    /\ factory = [n \in FactoryNames |-> NoFactory]
    /\ ret = [c \in FactoryNames \X {"isValid", "parse"} |-> NoCall]
    /\ dispatcher = [made |-> FALSE]
    /\ dispatched = NotCalled
    /\ calls = << >>
    /\ types = NoTypes

\* the builder keeping the field name in one place shared by all factories
CreateFactory_SharedField(n, f) ==
    /\ ~factory[n].made
    /\ factory' = [m \in FactoryNames |->
                      IF m = n THEN createDtoFactory(f)
                      ELSE IF factory[m].made
                           THEN [factory[m] EXCEPT !.discriminatorField = f]
                           ELSE factory[m]]
    /\ UNCHANGED <<heap, raw, ret, dispatcher, dispatched, calls, types>>

CreateFactory(n, f) ==
    /\ ~factory[n].made
    /\ factory' = [factory EXCEPT ![n] = createDtoFactory(f)]
    /\ UNCHANGED <<heap, raw, ret, dispatcher, dispatched, calls, types>>

IsValidOf(n) ==
    /\ factory[n].made
    /\ ret[<<n, "isValid">>] = NoCall
    /\ ret' = [ret EXCEPT ![<<n, "isValid">>] =
                  [out |-> isValid(heap, factory[n].discriminatorField, raw)]]
    /\ UNCHANGED <<heap, raw, factory, dispatcher, dispatched, calls, types>>

ParseOf(n) ==
    /\ factory[n].made
    /\ ret[<<n, "parse">>] = NoCall
    /\ ret' = [ret EXCEPT ![<<n, "parse">>] = [out |-> parse(heap, factory[n], raw)]]
    /\ UNCHANGED <<heap, raw, factory, dispatcher, dispatched, calls, types>>

NextPair ==
    \/ \E n \in FactoryNames, f \in FieldNames : CreateFactory(n, f)
    \/ \E n \in FactoryNames : IsValidOf(n)
    \/ \E n \in FactoryNames : ParseOf(n)

SpecPair == InitPair /\ [][NextPair]_vars

\* two objects, handed to one factory
InitTwin ==
    /\ \E objs \in TwinObjects : heap = HeapOf(objs)
    /\ raw = Ref("o1")
    /\ factory = NoFactory
    /\ ret = [c \in {"o1", "o2"} \X {"isValid", "parse"} |-> NoCall]
    /\ dispatcher = [made |-> FALSE]
    /\ dispatched = NotCalled
    /\ calls = << >>
    /\ types = NoTypes

IsValidOn(o) ==
    /\ factory.made
    /\ ret[<<o, "isValid">>] = NoCall
    /\ ret' = [ret EXCEPT ![<<o, "isValid">>] =
                  [out |-> isValid(heap, factory.discriminatorField, Ref(o))]]
    /\ UNCHANGED <<heap, raw, factory, dispatcher, dispatched, calls, types>>

ParseOn(o) ==
    /\ factory.made
    /\ ret[<<o, "parse">>] = NoCall
    /\ ret' = [ret EXCEPT ![<<o, "parse">>] = [out |-> parse(heap, factory, Ref(o))]]
    /\ UNCHANGED <<heap, raw, factory, dispatcher, dispatched, calls, types>>

NextTwin ==
    \/ \E f \in FieldNames : CreateDtoFactory(f)
    \/ \E o \in {"o1", "o2"} : IsValidOn(o)
    \/ \E o \in {"o1", "o2"} : ParseOn(o)

SpecTwin == InitTwin /\ [][NextTwin]_vars

----------------------------------------------------------------------------
(* Exhaustive Dispatcher Builder: createDtoHandler<Schemas>()(field, handlers) *)

Handlers == "handlers"

\* the handler map the type DtoHandlers admits: one function per discriminator
\* value of the field, and no other key
DtoHandlers(S, Field) ==
    PlainObject([v \in DiscriminatorId(S, Field) |-> Data(Ref(HandlerFn(v)))])

\* the closure returned by the builder: it holds the field name and the
\* caller's handler map, by reference
createDtoHandler(discriminatorField, handlers) ==
    [made |-> TRUE, discriminatorField |-> discriminatorField, handlers |-> handlers]

\* what a handler written by the caller may do when called: return nothing,
\* return a value, throw
HandlerResults == {Return(Undefined), Return(Str("A")), Throw("Error")}

\* fn(arg), called as a plain function (no receiver); result is what the body
\* of a caller's function does
Call(h, fn, arg, result) ==
    CASE h[fn].call = "handler"                   -> result
      [] h[fn].call = "Object.prototype.toString" -> Return(Str("[object Undefined]"))
      [] h[fn].call = "Object"                    -> Return(arg)
      [] OTHER                                    -> Throw("TypeError")

\* the dispatcher handing the handler the discriminator instead of the dto
dispatch_PassesId(h, d, dto, result) ==
    LET id == Get(h, dto, d.discriminatorField)
    IN  IF Threw(id)
        THEN [out |-> id, calls |-> << >>]
        ELSE LET handler == Get(h, Ref(d.handlers), ToPropertyKey(h, id.value))
             IN  IF Threw(handler)
                 THEN [out |-> handler, calls |-> << >>]
                 ELSE IF Typeof(h, handler.value) # "function"
                      THEN [out |-> Throw("TypeError"), calls |-> << >>]
                      ELSE LET o == Call(h, handler.value.r, id.value, result)
                           IN  [out   |-> o,
                                calls |-> <<[fn |-> handler.value.r, arg |-> id.value, out |-> o]>>]

\* the dispatcher calling the handler without returning what it returned
dispatch_DropsResult(h, d, dto, result) ==
    LET id == Get(h, dto, d.discriminatorField)
    IN  IF Threw(id)
        THEN [out |-> id, calls |-> << >>]
        ELSE LET handler == Get(h, Ref(d.handlers), ToPropertyKey(h, id.value))
             IN  IF Threw(handler)
                 THEN [out |-> handler, calls |-> << >>]
                 ELSE IF Typeof(h, handler.value) # "function"
                      THEN [out |-> Throw("TypeError"), calls |-> << >>]
                      ELSE LET o == Call(h, handler.value.r, dto, result)
                           IN  [out   |-> IF Threw(o) THEN o ELSE Return(Undefined),
                                calls |-> <<[fn |-> handler.value.r, arg |-> dto, out |-> o]>>]

\* the dispatcher looking the handler up among the map's own members only
dispatch_OwnHandlersOnly(h, d, dto, result) ==
    LET id == Get(h, dto, d.discriminatorField)
    IN  IF Threw(id)
        THEN [out |-> id, calls |-> << >>]
        ELSE IF ToPropertyKey(h, id.value) \notin DOMAIN h[d.handlers].own
             THEN [out |-> Throw("TypeError"), calls |-> << >>]
             ELSE LET handler == Get(h, Ref(d.handlers), ToPropertyKey(h, id.value))
                  IN  IF Threw(handler)
                      THEN [out |-> handler, calls |-> << >>]
                      ELSE IF Typeof(h, handler.value) # "function"
                           THEN [out |-> Throw("TypeError"), calls |-> << >>]
                           ELSE LET o == Call(h, handler.value.r, dto, result)
                                IN  [out   |-> o,
                                     calls |-> <<[fn |-> handler.value.r, arg |-> dto, out |-> o]>>]

\* the returned function (dto) => handlers[dto[discriminatorField]](dto):
\* its outcome and the calls it made
dispatch(h, d, dto, result) ==
    LET id == Get(h, dto, d.discriminatorField)
    IN  IF Threw(id)
        THEN [out |-> id, calls |-> << >>]
        ELSE LET handler == Get(h, Ref(d.handlers), ToPropertyKey(h, id.value))
             IN  IF Threw(handler)
                 THEN [out |-> handler, calls |-> << >>]
                 ELSE IF Typeof(h, handler.value) # "function"
                      THEN [out |-> Throw("TypeError"), calls |-> << >>]
                      ELSE LET o == Call(h, handler.value.r, dto, result)
                           IN  [out   |-> o,
                                calls |-> <<[fn |-> handler.value.r, arg |-> dto, out |-> o]>>]

\* the dispatcher building its own copy of the handler map
CreateDtoHandler_CopiesHandlers(f) ==
    /\ ~dispatcher.made
    /\ heap' = [r \in DOMAIN heap \cup {Handlers, "copy"} |->
                   IF r \in {Handlers, "copy"} THEN DtoHandlers(Schemas, f) ELSE heap[r]]
    /\ dispatcher' = createDtoHandler(f, "copy")
    /\ UNCHANGED <<raw, factory, ret, dispatched, calls, types>>

\* the caller writes the handler map as an object literal and builds the dispatcher
CreateDtoHandler(f) ==
    /\ ~dispatcher.made
    /\ heap' = [r \in DOMAIN heap \cup {Handlers} |->
                   IF r = Handlers THEN DtoHandlers(Schemas, f) ELSE heap[r]]
    /\ dispatcher' = createDtoHandler(f, Handlers)
    /\ UNCHANGED <<raw, factory, ret, dispatched, calls, types>>

Dispatch(result) ==
    /\ dispatcher.made
    /\ dispatched = NotCalled
    /\ LET d == dispatch(heap, dispatcher, raw, result)
       IN  /\ dispatched' = d.out
           /\ calls' = calls \o d.calls
    /\ UNCHANGED <<heap, raw, factory, ret, dispatcher, types>>

NextDispatch ==
    \/ \E f \in FieldNames : CreateDtoFactory(f)
    \/ Parse
    \/ \E f \in FieldNames : CreateDtoHandler(f)
    \/ \E result \in HandlerResults : Dispatch(result)

SpecDispatch == Init /\ [][NextDispatch]_vars

----------------------------------------------------------------------------
(* The caller using a factory and a dispatcher side by side *)

InitFrame ==
    /\ \E own \in TwinOwn :
           heap = HeapOf([o1 |-> PlainObject(own), o2 |-> PlainObject(NoProps)])
    /\ raw \in RawValues
    /\ raw # Ref("o1") => heap = HeapOf(EmptyObjects)
    /\ factory = NoFactory
    /\ ret = [op \in Ops |-> NoCall]
    /\ dispatcher = [made |-> FALSE]
    /\ dispatched = NotCalled
    /\ calls = << >>
    /\ types = NoTypes

NextFrame ==
    \/ \E f \in FieldNames : CreateDtoFactory(f)
    \/ IsValid
    \/ Parse
    \/ \E id \in IsArgs : Is(id)
    \/ GetId
    \/ \E f \in FieldNames : CreateDtoHandler(f)
    \/ \E result \in HandlerResults : Dispatch(result)

SpecFrame == InitFrame /\ [][NextFrame]_vars

----------------------------------------------------------------------------
(* The caller comparing discriminators, of valid and of invalid dtos *)

\* what the dto holds under a name: strings, the empty one included, a number,
\* null, undefined, an accessor that throws
ComparedProps ==
    {Data(Str("a")), Data(Str("123")), Data(Str("")), Data(Num(123)),
     Data(Null), Data(Undefined), ThrowingGetter}

\* the values handed to is as its second argument
ComparedValues == {Str("a"), Str("123"), Str(""), Num(123), Null, Undefined}

InitIs ==
    /\ \E own \in UNION {[K -> ComparedProps] : K \in SUBSET Keys} :
           heap = HeapOf([o1 |-> PlainObject(own), o2 |-> PlainObject(NoProps)])
    /\ raw \in {Ref("o1"), Null, Str("a")}
    /\ raw # Ref("o1") => heap = HeapOf(EmptyObjects)
    /\ factory = NoFactory
    /\ ret = [op \in Ops |-> NoCall]
    /\ dispatcher = [made |-> FALSE]
    /\ dispatched = NotCalled
    /\ calls = << >>
    /\ types = NoTypes

NextIs ==
    \/ \E f \in FieldNames : CreateDtoFactory(f)
    \/ IsValid
    \/ \E id \in ComparedValues : Is(id)

SpecIs == InitIs /\ [][NextIs]_vars

----------------------------------------------------------------------------
(* The caller that writes to the factory object and calls parse detached *)

\* the functions the caller assigns to the factory's isValid member
Replacements == {"acceptAll", "rejectAll"}

\* the ids this caller hands to is
TamperIds == {Str("a"), Str("")}

InitTamper ==
    /\ \E own \in TwinOwn :
           heap = HeapOf([o1 |-> PlainObject(own), o2 |-> PlainObject(NoProps)])
    /\ raw \in {Ref("o1"), Null, Str("a")}
    /\ raw # Ref("o1") => heap = HeapOf(EmptyObjects)
    /\ factory = NoFactory
    /\ ret = [op \in Ops |-> NoCall]
    /\ dispatcher = [made |-> FALSE]
    /\ dispatched = NotCalled
    /\ calls = << >>
    /\ types = NoTypes

\* factory.field = f, written by the caller (readonly is a compile-time mark)
OverwriteField(f) ==
    /\ factory.made
    /\ factory.field # f
    /\ factory' = [factory EXCEPT !.field = f]
    /\ UNCHANGED <<heap, raw, ret, dispatcher, dispatched, calls, types>>

\* factory.isValid = fn, written by the caller
ReplaceIsValid(fn) ==
    /\ factory.made
    /\ factory.isValid # fn
    /\ factory' = [factory EXCEPT !.isValid = fn]
    /\ UNCHANGED <<heap, raw, ret, dispatcher, dispatched, calls, types>>

\* factory.isValid(raw): the member the factory object holds at the call
IsValidOnFactory ==
    /\ factory.made
    /\ ret["isValid"] = NoCall
    /\ ret' = [ret EXCEPT !["isValid"] =
                  [out |-> CallIsValid(heap, factory, raw), this |-> factory]]
    /\ UNCHANGED <<heap, raw, factory, dispatcher, dispatched, calls, types>>

\* factory.parse(raw), or const { parse } = factory; parse(raw)
ParseOnReceiver(this) ==
    /\ factory.made
    /\ ret["parse"] = NoCall
    /\ ret' = [ret EXCEPT !["parse"] = [out |-> parse(heap, this, raw), this |-> this]]
    /\ UNCHANGED <<heap, raw, factory, dispatcher, dispatched, calls, types>>

NextTamper ==
    \/ \E f \in FieldNames : CreateDtoFactory(f)
    \/ \E f \in FieldNames : OverwriteField(f)
    \/ \E fn \in Replacements : ReplaceIsValid(fn)
    \/ IsValidOnFactory
    \/ \E this \in {factory, Undefined} : ParseOnReceiver(this)
    \/ \E id \in TamperIds : Is(id)
    \/ GetId

SpecTamper == InitTamper /\ [][NextTamper]_vars

----------------------------------------------------------------------------
(* The caller that rewrites its handler map after building the dispatcher *)

\* the dtos of this caller: o1 holds a literal of Schemas under both names
InitRemap ==
    /\ \E own \in [Keys -> {Data(Str("a")), Data(Str("b"))}] :
           heap = HeapOf([o1 |-> PlainObject(own), o2 |-> PlainObject(NoProps)])
    /\ raw = Ref("o1")
    /\ factory = NoFactory
    /\ ret = [op \in Ops |-> NoCall]
    /\ dispatcher = [made |-> FALSE]
    /\ dispatched = NotCalled
    /\ calls = << >>
    /\ types = NoTypes

\* own with the property k set to p, added if it was absent
WithProp(own, k, p) == [j \in DOMAIN own \cup {k} |-> IF j = k THEN p ELSE own[j]]

\* own without the property k
WithoutProp(own, k) == [j \in DOMAIN own \ {k} |-> own[j]]

\* handlers[v] = fn, written by the caller to the map it handed over
ReplaceHandler(v, fn) ==
    /\ dispatcher.made
    /\ v \in DiscriminatorId(Schemas, dispatcher.discriminatorField)
    /\ IF v \in DOMAIN heap[Handlers].own
       THEN heap[Handlers].own[v] # Data(Ref(fn))
       ELSE TRUE
    /\ heap' = [heap EXCEPT ![Handlers].own = WithProp(@, v, Data(Ref(fn)))]
    /\ UNCHANGED <<raw, factory, ret, dispatcher, dispatched, calls, types>>

\* delete handlers[v]
RemoveHandler(v) ==
    /\ dispatcher.made
    /\ v \in DOMAIN heap[Handlers].own
    /\ heap' = [heap EXCEPT ![Handlers].own = WithoutProp(@, v)]
    /\ UNCHANGED <<raw, factory, ret, dispatcher, dispatched, calls, types>>

\* a call of the dispatcher on raw, any number of times; the outcome of the
\* latest call and the calls it made are kept
DispatchAgain(result) ==
    /\ dispatcher.made
    /\ LET d == dispatch(heap, dispatcher, raw, result)
       IN  /\ dispatched' = d.out
           /\ calls' = d.calls
    /\ UNCHANGED <<heap, raw, factory, ret, dispatcher, types>>

NextRemap ==
    \/ \E f \in FieldNames : CreateDtoHandler(f)
    \/ \E v \in Strings, fn \in HandlerFns : ReplaceHandler(v, fn)
    \/ \E v \in Strings : RemoveHandler(v)
    \/ \E result \in HandlerResults : DispatchAgain(result)

SpecRemap == InitRemap /\ [][NextRemap]_vars

----------------------------------------------------------------------------
(* The caller with several factories and several dispatchers, calling them *)
(* in any order and any number of times                                    *)

DispatcherNames == {"handleId", "handleType"}

\* the handler map object written for dispatcher d
HandlersOf(d) == "handlers_" \o d

\* the object handed to every call: it holds "a" under any of Keys
InterleaveOwn == UNION {[K -> {Data(Str("a"))}] : K \in SUBSET Keys}

\* the field names a callee is built with: the first factory and the first
\* dispatcher are built for "id", the second ones for either name
FieldNamesOf(c) == IF c \in {"idFactory", "handleId"} THEN {"id"} ELSE FieldNames

FactoryCalls    == FactoryNames \X Ops
DispatcherCalls == DispatcherNames \X {"dispatch"}

InitInterleave ==
    /\ \E own \in InterleaveOwn :
           heap = HeapOf([o1 |-> PlainObject(own), o2 |-> PlainObject(NoProps)])
    /\ raw = Ref("o1")
    /\ factory = [n \in FactoryNames |-> NoFactory]
    /\ ret = [c \in FactoryCalls \cup DispatcherCalls |-> NoCall]
    /\ dispatcher = [d \in DispatcherNames |-> [made |-> FALSE]]
    /\ dispatched = NotCalled
    /\ calls = << >>
    /\ types = NoTypes

\* a call of factory n's operation op on raw; the latest outcome is kept
CallFactory(n, op) ==
    /\ factory[n].made
    /\ ret' = [ret EXCEPT ![<<n, op>>] =
                  CASE op = "isValid" ->
                           [out |-> isValid(heap, factory[n].discriminatorField, raw)]
                    [] op = "parse" ->
                           [out |-> parse(heap, factory[n], raw)]
                    [] op = "is" ->
                           [out |-> is(heap, factory[n].discriminatorField, raw, Str("a")),
                            id  |-> Str("a")]
                    [] op = "getId" ->
                           [out |-> getId(heap, factory[n].discriminatorField, raw)]]
    /\ UNCHANGED <<heap, raw, factory, dispatcher, dispatched, calls, types>>

CreateHandler(d, f) ==
    /\ ~dispatcher[d].made
    /\ heap' = [r \in DOMAIN heap \cup {HandlersOf(d)} |->
                   IF r = HandlersOf(d) THEN DtoHandlers(Schemas, f) ELSE heap[r]]
    /\ dispatcher' = [dispatcher EXCEPT ![d] = createDtoHandler(f, HandlersOf(d))]
    /\ UNCHANGED <<raw, factory, ret, dispatched, calls, types>>

\* a call of dispatcher d on raw, the invoked handler doing `result`; the
\* latest outcome is kept together with the calls it made
CallDispatcher(d, result) ==
    /\ dispatcher[d].made
    /\ ret' = [ret EXCEPT ![<<d, "dispatch">>] =
                  LET r == dispatch(heap, dispatcher[d], raw, result)
                  IN  [out |-> r.out, calls |-> r.calls, result |-> result]]
    /\ UNCHANGED <<heap, raw, factory, dispatcher, dispatched, calls, types>>

NextInterleave ==
    \/ \E n \in FactoryNames : \E f \in FieldNamesOf(n) : CreateFactory(n, f)
    \/ \E n \in FactoryNames, op \in Ops : CallFactory(n, op)
    \/ \E d \in DispatcherNames : \E f \in FieldNamesOf(d) : CreateHandler(d, f)
    \/ \E d \in DispatcherNames, result \in HandlerResults : CallDispatcher(d, result)

SpecInterleave == InitInterleave /\ [][NextInterleave]_vars

----------------------------------------------------------------------------
(* The compiler deriving the types of a Schema Set and a field name *)

ShapeNames == {"MessageA", "MessageB", "MessageC"}

\* "a" | "b"
LitUnion    == [lits |-> {"a", "b"}, str |-> FALSE, other |-> FALSE]
\* "a" | undefined, the type of an optional field
OptionalLit == [lits |-> {"a"}, str |-> FALSE, other |-> TRUE]

\* the types a shape may declare its field id with, and its field type
IdTypes   == {Lit("a"), Lit("b"), LitUnion, StringType, OtherType, OptionalLit, NeverType}
TypeTypes == {Lit("a")}

\* what a shape declares under the names of Keys
Declarations ==
    {d \in UNION {[D -> IdTypes \cup TypeTypes] : D \in SUBSET Keys} :
        /\ "id" \in DOMAIN d => d["id"] \in IdTypes
        /\ "type" \in DOMAIN d => d["type"] \in TypeTypes}

\* the shape named K: its declarations and a payload of its own, so that no two
\* shapes of a Schema Set are the same type
DeclaredShape(K, d) ==
    Shape([f \in DOMAIN d \cup {"payload"} |-> IF f = "payload" THEN Lit(K) ELSE d[f]])

SchemaSets ==
    {[K \in ShapeNames |-> DeclaredShape(K, ds[K])] : ds \in [ShapeNames -> Declarations]}

\* the derivations the compiler is asked for
Derivations == {"DiscriminatedKey", "DiscriminatorMap", "DiscriminatorId"}

InitTypes ==
    /\ heap = HeapOf(EmptyObjects)
    /\ raw = Undefined
    /\ factory = NoFactory
    /\ ret = [op \in Ops |-> NoCall]
    /\ dispatcher = [made |-> FALSE]
    /\ dispatched = NotCalled
    /\ calls = << >>
    /\ \E S \in SchemaSets, f \in FieldNames :
           types = [asked |-> TRUE, schemas |-> S, field |-> f, derived |-> {},
                    keys |-> {}, map |-> << >>, ids |-> {}]

DeriveDiscriminatedKey ==
    /\ "DiscriminatedKey" \notin types.derived
    /\ types' = [types EXCEPT !.keys = DiscriminatedKey(types.schemas, types.field),
                              !.derived = @ \cup {"DiscriminatedKey"}]
    /\ UNCHANGED <<heap, raw, factory, ret, dispatcher, dispatched, calls>>

DeriveDiscriminatorMap ==
    /\ "DiscriminatorMap" \notin types.derived
    /\ types' = [types EXCEPT !.map = DiscriminatorMap(types.schemas, types.field),
                              !.derived = @ \cup {"DiscriminatorMap"}]
    /\ UNCHANGED <<heap, raw, factory, ret, dispatcher, dispatched, calls>>

DeriveDiscriminatorId ==
    /\ "DiscriminatorId" \notin types.derived
    /\ types' = [types EXCEPT !.ids = DiscriminatorId(types.schemas, types.field),
                              !.derived = @ \cup {"DiscriminatorId"}]
    /\ UNCHANGED <<heap, raw, factory, ret, dispatcher, dispatched, calls>>

NextTypes ==
    \/ DeriveDiscriminatedKey
    \/ DeriveDiscriminatorMap
    \/ DeriveDiscriminatorId

SpecTypes == InitTypes /\ [][NextTypes]_vars

----------------------------------------------------------------------------
(* Properties *)

Called(op)   == ret[op] # NoCall
Accepted(o)  == o = Return(Bool(TRUE))
NonNull(o)   == Returned(o) /\ o.value # Null
Field        == factory.discriminatorField

\* raw is of object kind: not null, not undefined, not a primitive, not a function
ObjectKind(h, v) == v.t = "ref" /\ h[v.r].class # "Function"

\* reading v[f] yields a string of length greater than zero
HoldsNonEmptyString(h, v, f) ==
    /\ Returned(Get(h, v, f))
    /\ Get(h, v, f).value.t = "string"
    /\ Get(h, v, f).value.s # ""

\* C1: for every raw value and every factory, isValid(raw) is true exactly when
\* parse(raw) is not null.
C1_ValidIffParsed ==
    (Called("isValid") /\ Called("parse"))
        => (Accepted(ret["isValid"].out) <=> NonNull(ret["parse"].out))

C1_Witness ==
    /\ Called("isValid") /\ Called("parse")
    /\ Accepted(ret["isValid"].out)
    /\ NonNull(ret["parse"].out)
    /\ Field = "id"

\* C2: for every raw value that isValid accepts, parse(raw) returns the very
\* reference it was given: the same object of the heap, not another one and
\* not a value taken from it.
C2_ParseReturnsSameReference ==
    (Called("isValid") /\ Called("parse") /\ Accepted(ret["isValid"].out))
        => ret["parse"].out = Return(raw)

C2_Witness ==
    /\ Called("isValid") /\ Accepted(ret["isValid"].out)
    /\ Called("parse") /\ ret["parse"].out = Return(Ref("o1"))
    /\ heap["o1"].proto = Ref("o2")
    /\ Field = "type"

\* C3: isValid(raw) for a factory built with field name F returns true if and
\* only if raw is not null, not undefined, of object kind, and raw[F] is a string
\* whose length is greater than zero; in every other case it returns false.
C3_IsValidCharacterised ==
    Called("isValid")
        => ret["isValid"].out =
               Return(Bool(ObjectKind(heap, raw) /\ HoldsNonEmptyString(heap, raw, Field)))

\* C4: isValid and parse never raise an exception for any input value; every
\* rejected input is reported as false (isValid) or null (parse).
C4_IsValidParseNeverThrow ==
    /\ Called("isValid") => ret["isValid"].out \in {Return(Bool(TRUE)), Return(Bool(FALSE))}
    /\ Called("parse")   => ret["parse"].out \in {Return(raw), Return(Null)}

\* C5: is(dto, value) and getId(dto) return a value without raising for every
\* argument they can be handed at runtime, including a dto that would fail
\* validation: null, undefined, a primitive, an object lacking the field.
C5_IsGetIdNeverThrow ==
    \A op \in {"is", "getId"} :
        (Called(op) /\ (raw.t # "ref" \/ Get(heap, raw, Field) = Return(Undefined)))
            => Returned(ret[op].out)

\* C6 as stated: whenever parse(raw) is not null, raw's discriminator value is a
\* member of the Discriminator Value Set.
C6_ParsedIsInValueSet ==
    (Called("parse") /\ NonNull(ret["parse"].out))
        => /\ Returned(Get(heap, raw, Field))
           /\ Get(heap, raw, Field) \in {Return(Str(v)) : v \in DiscriminatorId(Schemas, Field)}

\* C6 amended: whenever parse(raw) is not null, raw is of object kind and its
\* discriminator field holds a string of length greater than zero; any such
\* string is accepted, member of the Discriminator Value Set or not.
C6_ParsedHoldsNonEmptyString ==
    (Called("parse") /\ NonNull(ret["parse"].out))
        => /\ ObjectKind(heap, raw)
           /\ HoldsNonEmptyString(heap, raw, Field)

C6_Witness ==
    /\ Called("parse") /\ NonNull(ret["parse"].out)
    /\ Get(heap, raw, Field) = Return(Str("zz"))
    /\ "zz" \notin DiscriminatorId(Schemas, Field)

\* C10: for every valid dto whose discriminator field holds X, is(dto, X) is true
\* and is(dto, Y) is false for every other value Y; so when X is a value of the
\* Discriminator Value Set, is is true for exactly one value of the set.
C10_IsTrueExactlyForHeldValue ==
    (Called("isValid") /\ Accepted(ret["isValid"].out))
        => /\ Called("is") =>
                ret["is"].out = Return(Bool(ret["is"].id = Get(heap, raw, Field).value))
           /\ Get(heap, raw, Field).value.s \in DiscriminatorId(Schemas, Field) =>
                Cardinality({Y \in DiscriminatorId(Schemas, Field) :
                                is(heap, Field, raw, Str(Y)) = Return(Bool(TRUE))}) = 1

C10_Witness ==
    /\ Called("isValid") /\ Accepted(ret["isValid"].out)
    /\ Get(heap, raw, Field) = Return(Str("a"))
    /\ Called("is") /\ ret["is"].id = Str("b") /\ ret["is"].out = Return(Bool(FALSE))

\* the own entries of the handler map the dispatcher was built with
OwnHandlers == heap[dispatcher.handlers].own

\* C7: for every raw value for which the factory's parse returns non-null, a
\* dispatcher built for the same field with one handler per Discriminator Value
\* invokes a handler of the map and returns its result, without raising itself.
C7_DispatchTotalOverParsed ==
    ( /\ Called("parse") /\ NonNull(ret["parse"].out)
      /\ dispatcher.made /\ dispatcher.discriminatorField = Field
      /\ dispatched # NotCalled )
        => /\ Len(calls) = 1
           /\ Data(Ref(calls[1].fn)) \in {OwnHandlers[v] : v \in DOMAIN OwnHandlers}
           /\ dispatched = calls[1].out

\* C8: for a handler map with one handler per discriminator value and a dto whose
\* discriminator field holds value v, one call of the dispatcher invokes the
\* handler stored under v exactly once, passes it that same dto reference, and
\* invokes no other handler of the map.
C8_DispatchInvokesExactlyTheHandler ==
    \A v \in Strings :
        ( /\ dispatched # NotCalled
          /\ v \in DOMAIN OwnHandlers
          /\ Get(heap, raw, dispatcher.discriminatorField) = Return(Str(v)) )
            => /\ Len(calls) = 1
               /\ Ref(calls[1].fn) = OwnHandlers[v].value
               /\ calls[1].arg = raw

C8_Witness ==
    /\ dispatched # NotCalled
    /\ dispatcher.discriminatorField = "id"
    /\ Get(heap, raw, "id") = Return(Str("b"))
    /\ Len(calls) = 1 /\ calls[1].fn = HandlerFn("b") /\ calls[1].arg = Ref("o1")

\* C9: the value the dispatcher returns for a dto is exactly the value the
\* handler it invoked returned, unmodified, undefined included.
C9_DispatchReturnsHandlerResult ==
    (dispatched # NotCalled /\ Len(calls) = 1)
        => dispatched = calls[1].out

C9_Witness ==
    /\ dispatched = Return(Undefined)
    /\ Len(calls) = 1 /\ calls[1].fn \in HandlerFns /\ calls[1].out = Return(Undefined)

\* the property a read of v[f] finds: the nearest one along the prototype chain
\* of the caller's objects (o1, then o2 when o1 inherits from it)
Nearest(h, v, f) ==
    IF f \in DOMAIN h[v.r].own
    THEN h[v.r].own[f]
    ELSE h[h[v.r].proto.r].own[f]

\* C11: for every dto that parse accepted, getId(dto) returns dto[field] verbatim,
\* the very string the dto's property holds, and is(dto, getId(dto)) is true.
C11_GetIdRoundtrip ==
    (Called("parse") /\ NonNull(ret["parse"].out) /\ Called("getId"))
        => /\ ret["getId"].out = Return(Nearest(heap, raw, Field).value)
           /\ ret["getId"].out.value.t = "string"
           /\ (Called("is") /\ ret["is"].id = ret["getId"].out.value)
                  => ret["is"].out = Return(Bool(TRUE))

C11_Witness ==
    /\ Called("parse") /\ NonNull(ret["parse"].out)
    /\ Called("getId") /\ ret["getId"].out = Return(Str(" "))
    /\ Called("is") /\ ret["is"].id = Str(" ") /\ ret["is"].out = Return(Bool(TRUE))
    /\ Field = "type"

\* C12: an object whose discriminator field is the empty string is rejected by
\* isValid and parse, while any string of length at least one is accepted,
\* a string made only of whitespace included: nothing is trimmed.
C12_EmptyRejectedBlankAccepted ==
    \A s \in Strings :
        (factory.made /\ ObjectKind(heap, raw) /\ Get(heap, raw, Field) = Return(Str(s)))
            => /\ Called("isValid") => ret["isValid"].out = Return(Bool(s # ""))
               /\ Called("parse") =>
                      ret["parse"].out = Return(IF s = "" THEN Null ELSE raw)

C12_Witness ==
    /\ Called("isValid") /\ ret["isValid"].out = Return(Bool(TRUE))
    /\ Called("parse") /\ ret["parse"].out = Return(raw)
    /\ Nearest(heap, raw, Field) = Data(Str(" "))

\* C13: an object whose discriminator field holds a value that is no string
\* (number, null, undefined, array, object, boolean), or that has no such field
\* at all, is rejected by isValid; the value is not converted to a string.
C13_NonStringRejected ==
    ( /\ Called("isValid")
      /\ ObjectKind(heap, raw)
      /\ Returned(Get(heap, raw, Field))
      /\ Get(heap, raw, Field).value.t # "string" )
        => ret["isValid"].out = Return(Bool(FALSE))

C13_Witness ==
    /\ Called("isValid") /\ ret["isValid"].out = Return(Bool(FALSE))
    /\ Field \in DOMAIN heap["o1"].own
    /\ heap["o1"].own[Field] = Data(Ref("o1"))
    /\ heap["o1"].class = "Array"
\* raw is null, undefined, a primitive or a function
NotObjectKind(h, v) ==
    \/ v.t \in {"null", "undefined", "string", "number", "boolean", "symbol"}
    \/ v.t = "ref" /\ h[v.r].class = "Function"

\* C14: isValid returns false for null, undefined and every raw value that is
\* no object (string, number, boolean, symbol, function), whatever the field
\* name of the factory and whatever the value carries under that name.
C14_NonObjectRejected ==
    (Called("isValid") /\ NotObjectKind(heap, raw))
        => ret["isValid"].out = Return(Bool(FALSE))

C14_Witness ==
    /\ Called("isValid") /\ ret["isValid"].out = Return(Bool(FALSE))
    /\ raw = Ref("o1") /\ heap["o1"].class = "Function"
    /\ Get(heap, raw, Field) = Return(Str("a"))

IsArray(h, v) == v.t = "ref" /\ h[v.r].class = "Array"

\* C15 as stated: isValid rejects every array and parse returns null for it,
\* for any array value and any field name; so isValid is true of no array and
\* parse returns no array.
C15_EveryArrayRejected ==
    IsArray(heap, raw)
        => /\ Called("isValid") => ~Accepted(ret["isValid"].out)
           /\ Called("parse") => ~NonNull(ret["parse"].out)

\* C15 amended: an array is accepted by isValid, and returned by parse, exactly
\* when reading array[field] gives a string of length greater than zero, as
\* for any other object.
C15_ArrayAcceptedIffHoldsString ==
    IsArray(heap, raw)
        => /\ Called("isValid") =>
                (Accepted(ret["isValid"].out) <=> HoldsNonEmptyString(heap, raw, Field))
           /\ Called("parse") =>
                /\ NonNull(ret["parse"].out) <=> HoldsNonEmptyString(heap, raw, Field)
                /\ NonNull(ret["parse"].out) => ret["parse"].out = Return(raw)

C15_Witness ==
    /\ IsArray(heap, raw)
    /\ Called("isValid") /\ Accepted(ret["isValid"].out)
    /\ Called("parse") /\ ret["parse"].out = Return(raw)
    /\ Field = "0" /\ heap["o1"].own = [k \in {"0"} |-> Data(Str("a"))]

\* C16 as stated: a factory may be built with the empty string as field name,
\* and for it isValid returns false and parse returns null for every raw value;
\* so that factory's isValid is true of no raw value and its parse returns none.
C16_EmptyFieldRejectsAll ==
    (factory.made /\ Field = "")
        => /\ Called("isValid") => ~Accepted(ret["isValid"].out)
           /\ Called("parse") => ~NonNull(ret["parse"].out)

\* C16 amended: a factory may be built with the empty string as field name; it
\* accepts a raw value exactly when that value is of object kind and its member
\* named by the empty string is a string of length greater than zero.
C16_EmptyFieldIsAFieldName ==
    (factory.made /\ Field = "")
        => /\ factory.field = ""
           /\ Called("isValid") =>
                (Accepted(ret["isValid"].out)
                    <=> (ObjectKind(heap, raw) /\ HoldsNonEmptyString(heap, raw, "")))
           /\ Called("parse") =>
                (NonNull(ret["parse"].out)
                    <=> (ObjectKind(heap, raw) /\ HoldsNonEmptyString(heap, raw, "")))

C16_Witness ==
    /\ factory.made /\ Field = ""
    /\ raw = Ref("o1") /\ heap["o1"].class = "Object"
    /\ heap["o1"].own = [k \in {""} |-> Data(Str("a"))]
    /\ Called("isValid") /\ Accepted(ret["isValid"].out)
    /\ Called("parse") /\ ret["parse"].out = Return(raw)
\* C17: two factories built with different field names never cross-validate: a
\* factory for field F answers false / null for any object that has no non-empty
\* string under F, also when the object holds a valid discriminator under the
\* other factory's field.
C17_NoCrossValidation ==
    \A n \in FactoryNames :
        ( /\ \A m \in FactoryNames : factory[m].made
          /\ \A m \in FactoryNames \ {n} :
                factory[m].discriminatorField # factory[n].discriminatorField
          /\ ~HoldsNonEmptyString(heap, raw, factory[n].discriminatorField) )
            => /\ ret[<<n, "isValid">>] # NoCall =>
                    ret[<<n, "isValid">>].out = Return(Bool(FALSE))
               /\ ret[<<n, "parse">>] # NoCall =>
                    ret[<<n, "parse">>].out = Return(Null)

\* C18: validation depends only on the discriminator field: two objects that hold
\* the same value under the factory's field get the same isValid outcome and the
\* same parse outcome (each returned, or each null), whatever their other fields.
C18_OnlyDiscriminatorInspected ==
    ( /\ factory.made
      /\ Returned(Get(heap, Ref("o1"), Field))
      /\ Get(heap, Ref("o1"), Field) = Get(heap, Ref("o2"), Field) )
        => /\ (ret[<<"o1", "isValid">>] # NoCall /\ ret[<<"o2", "isValid">>] # NoCall)
                  => ret[<<"o1", "isValid">>].out = ret[<<"o2", "isValid">>].out
           /\ (ret[<<"o1", "parse">>] # NoCall /\ ret[<<"o2", "parse">>] # NoCall)
                  => \/ /\ ret[<<"o1", "parse">>].out = Return(Ref("o1"))
                        /\ ret[<<"o2", "parse">>].out = Return(Ref("o2"))
                     \/ /\ ret[<<"o1", "parse">>].out = Return(Null)
                        /\ ret[<<"o2", "parse">>].out = Return(Null)

C18_Witness ==
    /\ factory.made /\ Field = "id"
    /\ heap["o1"].own = [k \in {"id", "type"} |->
                            IF k = "id" THEN Data(Str("a")) ELSE ThrowingGetter]
    /\ heap["o2"].own = [k \in {"id"} |-> Data(Str("a"))]
    /\ ret[<<"o1", "isValid">>].out = Return(Bool(TRUE))
    /\ ret[<<"o2", "isValid">>].out = Return(Bool(TRUE))
    /\ ret[<<"o1", "parse">>].out = Return(Ref("o1"))
    /\ ret[<<"o2", "parse">>].out = Return(Ref("o2"))

\* C19: the factory's field property is, verbatim, the field name passed to the
\* builder, and it is that same name that isValid, parse, is and getId inspect
\* for the whole lifetime of the factory.
C19_FieldIsTheNamePassed ==
    /\ [][\A f \in FieldNames : CreateDtoFactory(f) => factory'.field = f]_vars
    /\ [][factory.made => factory' = factory]_vars
    /\ [](factory.made =>
            /\ (Called("isValid") /\ Returned(ret["isValid"].out)) =>
                   ret["isValid"].out =
                       Return(Bool(ObjectKind(heap, raw)
                                   /\ HoldsNonEmptyString(heap, raw, factory.field)))
            /\ (Called("parse") /\ NonNull(ret["parse"].out)) =>
                   HoldsNonEmptyString(heap, raw, factory.field)
            /\ (Called("is") /\ Returned(ret["is"].out)) =>
                   ret["is"].out =
                       Return(Bool(Get(heap, raw, factory.field).value = ret["is"].id))
            /\ Called("getId") => ret["getId"].out = Get(heap, raw, factory.field))

C19_Witness ==
    /\ factory.made /\ factory.field = "type"
    /\ heap["o1"].own = [k \in {"type"} |-> Data(Str("a"))]
    /\ Called("isValid") /\ Accepted(ret["isValid"].out)
    /\ Called("parse") /\ ret["parse"].out = Return(Ref("o1"))
    /\ Called("is") /\ ret["is"].id = Str("a") /\ ret["is"].out = Return(Bool(TRUE))
    /\ Called("getId") /\ ret["getId"].out = Return(Str("a"))

\* C20: no operation of the library (isValid, parse, is, getId, dispatch)
\* modifies the value it is given, the handler map or the factory, and none keeps
\* a reference to its argument after the call; a dispatch has no effect but the
\* one call of the handler it invokes.
C20_OperationsLeaveNoTrace ==
    /\ [][(ret' # ret \/ dispatched' # dispatched)
            => /\ heap' = heap
               /\ raw' = raw
               /\ factory' = factory
               /\ dispatcher' = dispatcher]_vars
    /\ [][ /\ ret' # ret => calls' = calls
           /\ dispatched' # dispatched =>
                \/ calls' = calls
                \/ /\ Len(calls') = Len(calls) + 1
                   /\ calls'[Len(calls')].arg = raw
                   /\ Typeof(heap, Ref(calls'[Len(calls')].fn)) = "function" ]_vars
    /\ [](/\ factory.made => factory = createDtoFactory(factory.field)
          /\ dispatcher.made =>
                dispatcher = createDtoHandler(dispatcher.discriminatorField, Handlers))

C20_Witness ==
    /\ \A op \in Ops : Called(op)
    /\ dispatched = Return(Str("A")) /\ Len(calls) = 1 /\ calls[1].arg = Ref("o1")
    /\ heap["o1"] = PlainObject([k \in {"id"} |-> Data(Str("a"))])
    /\ heap[Handlers] = DtoHandlers(Schemas, "id")
    /\ factory = createDtoFactory("id")
    /\ dispatcher = createDtoHandler("id", Handlers)
\* C21: factories and dispatchers are stateless: under any interleaving of
\* constructions and calls on several factories and dispatchers, a call
\* repeated with the same argument returns what it returned before, and two
\* callees built with the same field name return the same for the same call:
\* a result depends on the argument and on the field name (and handler map)
\* fixed at construction, never on other calls.
C21_Stateless ==
    /\ [][\A c \in FactoryCalls : ret[c] # NoCall => ret'[c] = ret[c]]_vars
    /\ [][\A c \in DispatcherCalls :
              (ret[c] # NoCall /\ ret'[c].result = ret[c].result) => ret'[c] = ret[c]]_vars
    /\ [](\A op \in Ops :
              ( /\ \A n \in FactoryNames : factory[n].made /\ ret[<<n, op>>] # NoCall
                /\ \A n, m \in FactoryNames : factory[n].field = factory[m].field )
                  => \A n, m \in FactoryNames : ret[<<n, op>>] = ret[<<m, op>>])
    /\ []( ( /\ \A d \in DispatcherNames :
                   dispatcher[d].made /\ ret[<<d, "dispatch">>] # NoCall
             /\ \A d, e \in DispatcherNames :
                   /\ dispatcher[d].discriminatorField = dispatcher[e].discriminatorField
                   /\ ret[<<d, "dispatch">>].result = ret[<<e, "dispatch">>].result )
               => \A d, e \in DispatcherNames :
                     ret[<<d, "dispatch">>] = ret[<<e, "dispatch">>] )

C21_Witness ==
    /\ heap["o1"].own = [k \in {"id"} |-> Data(Str("a"))]
    /\ factory["idFactory"].made /\ factory["idFactory"].field = "id"
    /\ factory["typeFactory"].made /\ factory["typeFactory"].field = "type"
    /\ ret[<<"idFactory", "isValid">>].out = Return(Bool(TRUE))
    /\ ret[<<"typeFactory", "isValid">>].out = Return(Bool(FALSE))
    /\ ret[<<"idFactory", "parse">>].out = Return(Ref("o1"))
    /\ ret[<<"typeFactory", "getId">>].out = Return(Undefined)
    /\ dispatcher["handleId"].made /\ dispatcher["handleId"].discriminatorField = "id"
    /\ dispatcher["handleType"].made
    /\ ret[<<"handleId", "dispatch">>].out = Return(Str("A"))
    /\ ret[<<"handleType", "dispatch">>].out = Throw("TypeError")
\* the type shape K declares under the field asked for; FALSE when it declares none
Declares(K)     == types.field \in DOMAIN types.schemas[K].fields
DeclaredType(K) == types.schemas[K].fields[types.field]

\* a literal text type: one string literal or a union of string literals
IsLiteralText(T) == T.lits # {} /\ ~T.str /\ ~T.other

\* the keys of the derived map under which shape K is filed
SlotsOf(K) == {v \in DOMAIN types.map : types.schemas[K] \in types.map[v]}

\* C22: a shape of the Schema Set appears in the Discriminator Map and
\* contributes to the Discriminator Value Set if and only if it declares the
\* discriminator field with a literal text type; a shape that lacks the field,
\* declares it as the general string type or declares it with a type that is no
\* text is excluded, from the eligible names too.
C22_EligibleIffLiteralField ==
    \A K \in ShapeNames :
        /\ "DiscriminatorMap" \in types.derived =>
              (SlotsOf(K) # {} <=> (Declares(K) /\ IsLiteralText(DeclaredType(K))))
        /\ "DiscriminatorId" \in types.derived =>
              /\ (Declares(K) /\ IsLiteralText(DeclaredType(K)))
                    => DeclaredType(K).lits \subseteq types.ids
              /\ \A v \in types.ids :
                    \E J \in ShapeNames :
                        Declares(J) /\ IsLiteralText(DeclaredType(J)) /\ v \in DeclaredType(J).lits
        /\ ("DiscriminatedKey" \in types.derived /\ K \in types.keys) =>
              /\ Declares(K)
              /\ ~DeclaredType(K).str
              /\ ~DeclaredType(K).other

C22_Witness ==
    /\ types.asked /\ types.field = "id"
    /\ types.schemas["MessageA"] = DeclaredShape("MessageA", [id |-> Lit("a")])
    /\ types.schemas["MessageB"] = DeclaredShape("MessageB", [id |-> StringType])
    /\ types.schemas["MessageC"] = DeclaredShape("MessageC", [id |-> OtherType, type |-> Lit("a")])
    /\ types.derived = Derivations
    /\ types.keys = {"MessageA"}
    /\ types.ids = {"a"}
    /\ DOMAIN types.map = {"a"} /\ types.map["a"] = {types.schemas["MessageA"]}

\* the eligible shapes that declare literal v, and the one of them visited last
DeclaringNames(v) ==
    {K \in ShapeNames : Declares(K) /\ IsLiteralText(DeclaredType(K)) /\ v \in DeclaredType(K).lits}

Latest(Ks) == CHOOSE K \in Ks : \A J \in Ks : Position(J) <= Position(K)

C24_OneKeyPerShape ==
    "DiscriminatorMap" \in types.derived =>
        \A K \in ShapeNames :
            (Declares(K) /\ IsLiteralText(DeclaredType(K)))
                => Cardinality(SlotsOf(K)) = 1

\* C24 amended: an eligible shape is filed under every literal its field type
\* admits: under exactly one key when the type is a single literal, under each
\* member when the type is a union of literals.
C24_OneKeyPerLiteral ==
    "DiscriminatorMap" \in types.derived =>
        \A K \in ShapeNames :
            (Declares(K) /\ IsLiteralText(DeclaredType(K)))
                => SlotsOf(K) = DeclaredType(K).lits

C24_Witness ==
    /\ types.asked /\ types.field = "id"
    /\ types.schemas["MessageA"] = DeclaredShape("MessageA", [id |-> LitUnion])
    /\ types.schemas["MessageB"] = DeclaredShape("MessageB", [id |-> Lit("b")])
    /\ "DiscriminatorMap" \in types.derived
    /\ SlotsOf("MessageA") = {"a", "b"}
    /\ SlotsOf("MessageB") = {"b"}
\* C25: is(dto, value) does not re-validate and does not coerce: its result is
\* exactly the strict comparison dto[field] === value (same type and same
\* value), also for a dto that isValid rejects: a field holding the number 123
\* compared with "123" gives false, a field holding "" compared with "" gives
\* true; where evaluating dto[field] raises, is raises the same.
C25_IsIsStrictComparison ==
    Called("is") =>
        LET held == Get(heap, raw, Field)
            id   == ret["is"].id
        IN  /\ Threw(held) => ret["is"].out = held
            /\ Returned(held) =>
                  /\ ret["is"].out \in {Return(Bool(TRUE)), Return(Bool(FALSE))}
                  /\ ret["is"].out = Return(Bool(TRUE))
                        <=> (held.value.t = id.t /\ held.value = id)
            /\ (held = Return(Num(123)) /\ id = Str("123")) =>
                  ret["is"].out = Return(Bool(FALSE))
            /\ (held = Return(Str("")) /\ id = Str("")) =>
                  ret["is"].out = Return(Bool(TRUE))

C25_Witness ==
    /\ Called("isValid") /\ ret["isValid"].out = Return(Bool(FALSE))
    /\ Called("is") /\ ret["is"].id = Str("") /\ ret["is"].out = Return(Bool(TRUE))
    /\ Get(heap, raw, Field) = Return(Str(""))
\* the members every handler map inherits
Inherited == heap[ObjectPrototype].own

\* C26: the dispatcher resolves its handler by the plain lookup
\* handlers[dto[field]], with no test that the entry is an own member of the
\* map: for a dto whose discriminator names a member the map only inherits
\* (toString) the inherited function is called with the dto, and for a
\* discriminator that names no member at all the call raises.
C26_LookupReachesInheritedMembers ==
    \A v \in Strings :
        ( /\ dispatched # NotCalled
          /\ Get(heap, raw, dispatcher.discriminatorField) = Return(Str(v))
          /\ v \notin DOMAIN OwnHandlers )
            => IF v \in DOMAIN Inherited
               THEN /\ Len(calls) = 1
                    /\ Ref(calls[1].fn) = Inherited[v].value
                    /\ calls[1].arg = raw
                    /\ dispatched = calls[1].out
               ELSE /\ calls = << >>
                    /\ dispatched = Throw("TypeError")

C26_Witness ==
    /\ dispatched = Return(Str("[object Undefined]"))
    /\ Get(heap, raw, dispatcher.discriminatorField) = Return(Str("toString"))
    /\ "toString" \notin DOMAIN OwnHandlers
    /\ Len(calls) = 1 /\ calls[1].fn = "toString" /\ calls[1].arg = Ref("o1")

----------------------------------------------------------------------------
(* C27: parse and its receiver *)

Detached(slot) == slot.this = Undefined
Member(slot)   == IF Detached(slot) THEN "none" ELSE slot.this.isValid

\* C27: parse validates by calling the isValid member found on `this`. Called
\* detached it raises a TypeError, for every raw value, instead of returning
\* null; called on the factory whose member is the library's, it returns raw
\* exactly when that factory's isValid accepts raw; called on a factory whose
\* member was replaced it follows the replacement: raw when the replacement
\* accepts, null when it rejects, whatever the library's rule says of raw.
C27_ParseFollowsReceiver ==
    Called("parse") =>
        LET slot == ret["parse"]
        IN  /\ Detached(slot) => slot.out = Throw("TypeError")
            /\ Member(slot) = "acceptAll" => slot.out = Return(raw)
            /\ Member(slot) = "rejectAll" => slot.out = Return(Null)
            /\ (Member(slot) = "isValid" /\ Called("isValid")
                    /\ Member(ret["isValid"]) = "isValid")
                   => /\ Accepted(ret["isValid"].out) <=> NonNull(slot.out)
                      /\ Threw(ret["isValid"].out) <=> Threw(slot.out)
                      /\ ret["isValid"].out = Return(Bool(FALSE))
                             <=> slot.out = Return(Null)

\* the library's rule rejected the object, the replaced member accepts it, and
\* parse, called on the factory, returned the object
C27_Witness ==
    /\ Called("isValid") /\ Member(ret["isValid"]) = "isValid"
    /\ ret["isValid"].out = Return(Bool(FALSE))
    /\ Called("parse") /\ Member(ret["parse"]) = "acceptAll"
    /\ raw = Ref("o1")
    /\ ret["parse"].out = Return(Ref("o1"))


----------------------------------------------------------------------------
(* C28: the name captured at construction and the field property *)

\* C28: isValid, is and getId read the field name captured when the factory was
\* built, not the factory's field property. The captured name is the one handed
\* to the builder and nothing the caller does afterwards changes it, writing
\* another name to factory.field included; whatever the field property holds
\* when they are called, the library's isValid, is and getId answer for the
\* property of raw under the captured name.
C28_CapturedNameIsRead ==
    /\ [][\A f \in FieldNames : CreateDtoFactory(f) => factory'.discriminatorField = f]_vars
    /\ [][factory.made => factory'.discriminatorField = factory.discriminatorField]_vars
    /\ [](factory.made =>
            /\ (Called("isValid") /\ Member(ret["isValid"]) = "isValid") =>
                   ret["isValid"].out =
                       IF raw.t = "ref" /\ Threw(Get(heap, raw, Field))
                       THEN Get(heap, raw, Field)
                       ELSE Return(Bool(ObjectKind(heap, raw)
                                        /\ HoldsNonEmptyString(heap, raw, Field)))
            /\ Called("getId") => ret["getId"].out = Get(heap, raw, Field)
            /\ Called("is") =>
                   ret["is"].out =
                       IF Threw(Get(heap, raw, Field))
                       THEN Get(heap, raw, Field)
                       ELSE Return(Bool(Get(heap, raw, Field).value = ret["is"].id)))

\* the field property was overwritten with "type" before the calls; the object
\* holds a string under "id", the captured name, and a number under "type"
C28_Witness ==
    /\ factory.made /\ Field = "id" /\ factory.field = "type"
    /\ raw = Ref("o1")
    /\ heap["o1"].own = [k \in {"id", "type"} |->
                            IF k = "id" THEN Data(Str("a")) ELSE Data(Num(123))]
    /\ Called("isValid") /\ ret["isValid"].this.field = "type"
    /\ ret["isValid"].this.isValid = "isValid"
    /\ ret["isValid"].out = Return(Bool(TRUE))
    /\ Called("getId") /\ ret["getId"].out = Return(Str("a"))
    /\ Called("is") /\ ret["is"].id = Str("a") /\ ret["is"].out = Return(Bool(TRUE))

----------------------------------------------------------------------------
(* C29: the handler map is held by reference *)

\* the value raw holds under the dispatcher's field name
HeldId == Get(heap, raw, dispatcher.discriminatorField).value.s

\* C29: the dispatcher holds the caller's handler map by reference and looks the
\* handler up at each call. Whatever the caller wrote to the map since the
\* dispatcher was built, a call for a dto whose discriminator is v invokes,
\* once and with the dto, the function the map holds under v at that moment and
\* returns its outcome; and when the map holds no entry under v any more, the
\* call raises a TypeError and invokes nothing.
C29_LookupAtEachDispatch ==
    [][\A result \in HandlerResults :
          DispatchAgain(result) =>
              IF HeldId \in DOMAIN heap[Handlers].own
              THEN /\ calls' = <<[fn  |-> heap[Handlers].own[HeldId].value.r,
                                  arg |-> raw, out |-> result]>>
                   /\ dispatched' = result
              ELSE /\ calls' = << >>
                   /\ dispatched' = Throw("TypeError")]_vars

\* the entry for "a" was written as fn_a, the caller replaced it by fn_b and
\* removed the entry for "b"; the latest dispatch of a dto holding "a" invoked fn_b
C29_Witness ==
    /\ dispatcher.made /\ dispatcher.discriminatorField = "id"
    /\ heap["o1"].own["id"] = Data(Str("a"))
    /\ DOMAIN heap[Handlers].own = {"a"}
    /\ heap[Handlers].own["a"] = Data(Ref(HandlerFn("b")))
    /\ calls = <<[fn |-> HandlerFn("b"), arg |-> Ref("o1"), out |-> Return(Str("A"))]>>
    /\ dispatched = Return(Str("A"))

----------------------------------------------------------------------------
(* C30: an inherited discriminator *)

\* o has no own property f and its prototype holds a string of length greater
\* than zero under f as a data property
InheritsNonEmptyString(h, o, f) ==
    /\ f \notin DOMAIN h[o].own
    /\ h[o].proto.t = "ref"
    /\ f \in DOMAIN h[h[o].proto.r].own
    /\ h[h[o].proto.r].own[f].kind = "data"
    /\ h[h[o].proto.r].own[f].value.t = "string"
    /\ h[h[o].proto.r].own[f].value.s # ""

\* C30: field presence in isValid is decided by property lookup, not by an
\* own-property test: an object with no own discriminator field whose prototype
\* holds a non-empty string under that name is accepted by isValid, and parse
\* returns that object.
C30_InheritedFieldAccepted ==
    (factory.made /\ raw = Ref("o1") /\ InheritsNonEmptyString(heap, "o1", Field))
        => /\ Called("isValid") => ret["isValid"].out = Return(Bool(TRUE))
           /\ Called("parse") => ret["parse"].out = Return(Ref("o1"))

\* o1 is empty, its prototype o2 holds "b" under "id"; both calls were made
C30_Witness ==
    /\ factory.made /\ Field = "id" /\ raw = Ref("o1")
    /\ DOMAIN heap["o1"].own = {}
    /\ heap["o1"].proto = Ref("o2")
    /\ heap["o2"].own = [k \in {"id"} |-> Data(Str("b"))]
    /\ Called("isValid") /\ ret["isValid"].out = Return(Bool(TRUE))
    /\ Called("parse") /\ ret["parse"].out = Return(Ref("o1"))

============================================================================
